---------------------------- MODULE Spec2Model ----------------------------
(***************************************************************************)
(* Model of the talisman-wfc ingestion pipeline (ANSI console variant):    *)
(* the goroutine in main that receives the lines of talisman.log from the  *)
(* tail, classifies each line with the regular expressions, updates        *)
(* nodeStatus / activeUsers / lastUser / todaysCalls and redraws the       *)
(* touched rows when a ticker tick is pending.                             *)
(***************************************************************************)
EXTENDS Integers, Sequences, FiniteSets, TLC

VARIABLES
    logFile,       \* talisman.log: the sequence of lines written so far
    pos,           \* number of lines the goroutine has received from t.Lines
    lineSet,       \* the lines the BBS writes in this run (input alphabet)
    today,         \* the local calendar day, time.Now().Format("2006-01-02")
    nodeStatus,    \* map[string]NodeStatus
    activeUsers,   \* map[string]string, node number to username
    lastUser,      \* the "Last User" value
    todaysCalls,   \* the "Today's Calls" value
    countedDay,    \* the today of the latest countTodaysCalls call
    updatedNodes,  \* map[int]NodeStatus built by the latest line handler
    tickPending,   \* a tick is buffered in ticker.C
    drawn,         \* what the latest line handler wrote to the terminal
    screen,        \* what the terminal shows
    pc,            \* the statement of main / of the goroutine that runs next
    logState,      \* talisman.log at the os.Stat of main, and after it
    tailOpen       \* t.Lines is open: the tail follows the file

vars == <<logFile, pos, lineSet, today, nodeStatus, activeUsers, lastUser,
          todaysCalls, countedDay, updatedNodes, tickPending, drawn, screen,
          pc, logState, tailOpen>>

(* the variables of the program counter and of the line source *)
ctl == <<pc, logState, tailOpen>>

---------------------------------------------------------------------------
(* Bounds of the model *)

MaxLog == 4        \* lines in talisman.log
MaxBacklog == 1    \* lines written but not yet received by the goroutine
MaxDay == 2        \* calendar days the run spans
maxNodes == 2      \* "max nodes" of talisman.ini

(* Program constants *)

maxLogLines == 200

excludeUser == "j0hnny a1pha"

---------------------------------------------------------------------------
(* Go maps *)

EmptyMap == <<>>

MapPut(m, k, v) == [x \in (DOMAIN m) \cup {k} |-> IF x = k THEN v ELSE m[x]]

MapDelete(m, k) == [x \in (DOMAIN m) \ {k} |-> m[x]]

(* strconv.Itoa / strconv.Atoi on the node numbers of the model; Atoi      *)
(* yields 0 on a string that is not a number.                              *)

Itoa(i) ==
    CASE i = 0 -> "0" [] i = 1 -> "1" [] i = 2 -> "2" [] i = 3 -> "3"
      [] i = 4 -> "4" [] i = 5 -> "5" [] i = 6 -> "6" [] OTHER -> "7"

Atoi(s) ==
    CASE s = "1" -> 1 [] s = "2" -> 2 [] s = "3" -> 3 [] s = "4" -> 4
      [] s = "5" -> 5 [] s = "6" -> 6 [] s = "7" -> 7 [] OTHER -> 0

NodeStatus(user, location) == [User |-> user, Location |-> location]

IdleStatus == NodeStatus("waiting for caller", <<"-">>)

---------------------------------------------------------------------------
(* Log lines.  A line is the date prefix followed by one of the texts      *)
(*   INFO: Connection From: <arg> on Node <node>          (shape "conn")   *)
(*   INFO: <user> logged in on node <node>                (shape "login")  *)
(*   INFO: New user signing up on node <node>             (shape "newuser")*)
(*   INFO: <user> loading menu <arg> on node <node>       (shape "menu")   *)
(*   INFO: <user> <verb> <arg> on node <node>             (shape "act")    *)
(*   INFO: Node <node> logged off                         (shape "off")    *)
(*   INFO: Server listening                               (shape "other")  *)
(*   INFO: New user signing up on node <node> logged in on node <node>     *)
(*                                                 (shape "signup+login")  *)

Text(shape, user, verb, arg, node) ==
    [shape |-> shape, user |-> user, verb |-> verb, arg |-> arg, node |-> node]

ConnLine(addr, node) == Text("conn", "", "", addr, node)

LoginLine(user, node) == Text("login", user, "logged in", "", node)

NewUserLine(node) == Text("newuser", "", "", "", node)

MenuLine(user, path, node) == Text("menu", user, "loading menu", path, node)

ActLine(user, verb, arg, node) == Text("act", user, verb, arg, node)

OffLine(node) == Text("off", "", "", "", node)

OtherLine == Text("other", "", "", "", "")

(* INFO: New user signing up on node <node> logged in on node <node>:     *)
(* the login line of a user whose name is the text of a signup line       *)
SignupNamedUser(node) ==
    CASE node = "1" -> "New user signing up on node 1"
      [] node = "2" -> "New user signing up on node 2"
      [] OTHER -> "New user signing up on node 3"

SignupLoginLine(node) ==
    Text("signup+login", SignupNamedUser(node), "logged in", "", node)

Stamp(text, day) ==
    [date |-> day, shape |-> text.shape, user |-> text.user,
     verb |-> text.verb, arg |-> text.arg, node |-> text.node]

(* The line sets a run draws its log from: a session on node 1, two       *)
(* nodes of which one lies beyond "max nodes", the logins and the signup  *)
(* that decide the identity of node 1, and lines that match two patterns  *)
(* or a verb phrase outside logPattern, and menu paths as menu lines and  *)
(* as the object of an activity.                                          *)

OutNode == Itoa(maxNodes + 1)

LineSets ==
    { { ConnLine("1.2.3.4", "1"), LoginLine("bob", "1"),
        MenuLine("bob", "menus/main.toml", "1"), OffLine("1"), OtherLine },
      { LoginLine("bob", "1"), LoginLine(excludeUser, OutNode),
        ActLine("bob", "running door", "tradewars", "1"),
        OffLine("1"), OffLine(OutNode) },
      { LoginLine("New User", "1"), LoginLine("bob", "1"),
        MenuLine(excludeUser, "menus/main.toml", "1"),
        NewUserLine("1"), OffLine("1") },
      { SignupLoginLine("1"), LoginLine("bob", "1"),
        ActLine("bob", "listing fileareas", "all", "1"),
        ConnLine("1.2.3.4", "1"), OffLine("1") },
      { MenuLine("bob", "menus/main.toml", "1"),
        ActLine("bob", "running script", "menus/main.toml", "1"),
        MenuLine("bob", "menus/sub/files.toml", "2"),
        ActLine("bob", "posting a message", "general", "2"),
        OffLine("1") } }

---------------------------------------------------------------------------
(* The regular expressions: FindStringSubmatch gives the capture groups    *)
(* (index i is group i of the Go result), or the empty sequence when the   *)
(* line does not match.                                                    *)

VerbsOfLogPattern ==
    {"logged in", "loading menu", "running door", "running script",
     "listing messages", "posting a message"}

logPattern(line) ==
    IF line.shape \in {"menu", "act"} /\ line.verb \in VerbsOfLogPattern
    THEN <<line.user, line.verb, line.arg, line.node>>
    ELSE <<>>

disconnectPattern(line) ==
    IF line.shape = "off" THEN <<line.node>> ELSE <<>>

loginPattern(line) ==
    IF line.shape \in {"login", "signup+login"}
    THEN <<line.user, line.node>>
    ELSE <<>>

connectionPattern(line) ==
    IF line.shape = "conn" THEN <<line.arg, line.node>> ELSE <<>>

menuPattern(line) ==
    IF line.shape = "menu" THEN <<line.user, line.arg, line.node>> ELSE <<>>

newUserPattern(line) ==
    IF line.shape \in {"newuser", "signup+login"}
    THEN <<line.node>>
    ELSE <<>>

(* strings.HasPrefix(line, today) *)
HasPrefixToday(line, day) == line.date = day

---------------------------------------------------------------------------
(* String helpers of the location formatting, on the texts of the model.   *)

Base(path) ==
    CASE path = "menus/main.toml" -> "main.toml"
      [] path = "menus/files.toml" -> "files.toml"
      [] path = "menus/sub/files.toml" -> "files.toml"
      [] OTHER -> path

TrimPrefix(s, prefix) ==
    CASE prefix = "menus/" /\ s = "menus/main.toml" -> "main.toml"
      [] prefix = "menus/" /\ s = "menus/files.toml" -> "files.toml"
      [] prefix = "menus/" /\ s = "menus/sub/files.toml" -> "sub/files.toml"
      [] OTHER -> s

TrimSuffix(s, suffix) ==
    CASE suffix = ".toml" /\ s = "main.toml" -> "main"
      [] suffix = ".toml" /\ s = "files.toml" -> "files"
      [] suffix = ".toml" /\ s = "menus/main.toml" -> "menus/main"
      [] suffix = ".toml" /\ s = "sub/files.toml" -> "sub/files"
      [] suffix = ".toml" /\ s = "menus/sub/files.toml" -> "menus/sub/files"
      [] OTHER -> s

Title(s) ==
    CASE s = "main" -> "Main"
      [] s = "files" -> "Files"
      [] s = "tradewars" -> "Tradewars"
      [] s = "general" -> "General"
      [] s = "all" -> "All"
      [] s = "menus/main" -> "Menus/Main"
      [] s = "sub/files" -> "Sub/Files"
      [] s = "menus/sub/files" -> "Menus/Sub/Files"
      [] OTHER -> s

(* A displayed text is kept as the sequence of the pieces it is            *)
(* concatenated from: "At " + menuName + " Menu" is <<"At ", .., " Menu">>. *)
Str(s) == <<s>>

---------------------------------------------------------------------------
(* countTodaysCalls: a scan of the whole log file. *)

(* variants of CountFrom: the date prefix is not tested; the excluded user *)
(* is not skipped                                                          *)
RECURSIVE CountFrom_AnyDay(_, _, _)
CountFrom_AnyDay(file, i, day) ==
    IF i > Len(file) THEN 0
    ELSE CountFrom_AnyDay(file, i + 1, day)
         + (IF /\ Len(loginPattern(file[i])) > 0
               /\ loginPattern(file[i])[1] # excludeUser
            THEN 1 ELSE 0)

RECURSIVE CountFrom_NoExclude(_, _, _)
CountFrom_NoExclude(file, i, day) ==
    IF i > Len(file) THEN 0
    ELSE CountFrom_NoExclude(file, i + 1, day)
         + (IF /\ HasPrefixToday(file[i], day)
               /\ Len(loginPattern(file[i])) > 0
            THEN 1 ELSE 0)

RECURSIVE CountFrom(_, _, _)
CountFrom(file, i, day) ==
    IF i > Len(file) THEN 0
    ELSE CountFrom(file, i + 1, day)
         + (IF /\ HasPrefixToday(file[i], day)
               /\ Len(loginPattern(file[i])) > 0
               /\ loginPattern(file[i])[1] # excludeUser
            THEN 1 ELSE 0)

(* variants of countTodaysCalls: the users with a qualifying login are     *)
(* counted, not the logins                                                 *)
countTodaysCalls_DistinctUsers(file, day) ==
    Cardinality({loginPattern(file[i])[1] :
                    i \in {j \in 1..Len(file) :
                              /\ HasPrefixToday(file[j], day)
                              /\ Len(loginPattern(file[j])) > 0
                              /\ loginPattern(file[j])[1] # excludeUser}})

countTodaysCalls(file, day) == CountFrom(file, 1, day)

(* findLastLoggedOffUser: the scan of the last numLines lines at startup. *)

Max(a, b) == IF a >= b THEN a ELSE b

RECURSIVE ScanFrom(_, _, _, _)
ScanFrom(lines, i, users, last) ==
    IF i > Len(lines) THEN last
    ELSE LET line == lines[i]
             users1 == IF Len(loginPattern(line)) > 0
                       THEN MapPut(users, loginPattern(line)[2],
                                   loginPattern(line)[1])
                       ELSE users
             last1 == IF /\ Len(disconnectPattern(line)) > 0
                         /\ disconnectPattern(line)[1] \in DOMAIN users1
                      THEN users1[disconnectPattern(line)[1]]
                      ELSE last
         IN ScanFrom(lines, i + 1, users1, last1)

(* variant of findLastLoggedOffUser: every line of the file is processed *)
findLastLoggedOffUser_WholeFile(file, numLines) ==
    ScanFrom(file, 1, EmptyMap, "None")

findLastLoggedOffUser(file, numLines) ==
    ScanFrom(SubSeq(file, Max(0, Len(file) - numLines) + 1, Len(file)),
             1, EmptyMap, "None")

---------------------------------------------------------------------------
(* The branches of the if / else-if chain of the line handler.  st is the  *)
(* record of nodeStatus, activeUsers, lastUser, todaysCalls and the        *)
(* updatedNodes map the handler has just made; m is the submatch result.   *)

State(ns, au, lu, tc, un) ==
    [nodeStatus |-> ns, activeUsers |-> au, lastUser |-> lu,
     todaysCalls |-> tc, updatedNodes |-> un]

(* variant of ConnectBranch: an entry the node already has is kept *)
ConnectBranch_KeepsEntry(m, st) ==
    LET ip == m[1]
        node == m[2]
        ns == IF node \in DOMAIN st.nodeStatus THEN st.nodeStatus
              ELSE MapPut(st.nodeStatus, node,
                          NodeStatus("Unknown User", Str(ip)))
    IN State(ns, st.activeUsers, st.lastUser, st.todaysCalls,
             MapPut(st.updatedNodes, Atoi(node), ns[node]))

ConnectBranch(m, st) ==
    LET ip == m[1]
        node == m[2]
        ns == MapPut(st.nodeStatus, node, NodeStatus("Unknown User", Str(ip)))
    IN State(ns, st.activeUsers, st.lastUser, st.todaysCalls,
             MapPut(st.updatedNodes, Atoi(node), ns[node]))

(* variants of LoginBranch: the activeUsers entry is not recorded; the     *)
(* login also becomes the "Last User"                                      *)
LoginBranch_NoTrack(m, st, file, day) ==
    LET node == m[2]
        user == m[1]
        ns == MapPut(st.nodeStatus, node, NodeStatus(user, Str("logging in...")))
    IN State(ns, st.activeUsers, st.lastUser,
             countTodaysCalls(file, day),
             MapPut(st.updatedNodes, Atoi(node), ns[node]))

LoginBranch_SetsLastUser(m, st, file, day) ==
    LET node == m[2]
        user == m[1]
        ns == MapPut(st.nodeStatus, node, NodeStatus(user, Str("logging in...")))
    IN State(ns, MapPut(st.activeUsers, node, user), user,
             countTodaysCalls(file, day),
             MapPut(st.updatedNodes, Atoi(node), ns[node]))

LoginBranch(m, st, file, day) ==
    LET node == m[2]
        user == m[1]
        ns == MapPut(st.nodeStatus, node, NodeStatus(user, Str("logging in...")))
    IN State(ns, MapPut(st.activeUsers, node, user), st.lastUser,
             countTodaysCalls(file, day),
             MapPut(st.updatedNodes, Atoi(node), ns[node]))

(* variant of NewUserBranch: the placeholder is tracked in activeUsers *)
NewUserBranch_TracksPlaceholder(m, st) ==
    LET node == m[1]
        ns == MapPut(st.nodeStatus, node,
                     NodeStatus("New User", Str("Signing up...")))
    IN State(ns, MapPut(st.activeUsers, node, "New User"), st.lastUser,
             st.todaysCalls, MapPut(st.updatedNodes, Atoi(node), ns[node]))

NewUserBranch(m, st) ==
    LET node == m[1]
        ns == MapPut(st.nodeStatus, node,
                     NodeStatus("New User", Str("Signing up...")))
    IN State(ns, st.activeUsers, st.lastUser, st.todaysCalls,
             MapPut(st.updatedNodes, Atoi(node), ns[node]))

(* variant of MenuBranch: filepath.Base is not applied to the path *)
MenuBranch_FullPath(m, st) ==
    LET user == m[1]
        menuName == Title(TrimSuffix(m[2], ".toml"))
        node == m[3]
        ns == MapPut(st.nodeStatus, node,
                     NodeStatus(user, <<"At ", menuName, " Menu">>))
    IN State(ns, st.activeUsers, st.lastUser, st.todaysCalls,
             MapPut(st.updatedNodes, Atoi(node), ns[node]))

MenuBranch(m, st) ==
    LET user == m[1]
        menuName == Title(TrimSuffix(Base(m[2]), ".toml"))
        node == m[3]
        ns == MapPut(st.nodeStatus, node,
                     NodeStatus(user, <<"At ", menuName, " Menu">>))
    IN State(ns, st.activeUsers, st.lastUser, st.todaysCalls,
             MapPut(st.updatedNodes, Atoi(node), ns[node]))

ActivityBranch(m, st) ==
    LET node == m[4]
        user == m[1]
        location == TrimSuffix(TrimPrefix(TrimPrefix(m[3], "menu "), "menus/"),
                               ".toml")
        ns == MapPut(st.nodeStatus, node,
                     NodeStatus(user, <<"At ", Title(location)>>))
    IN State(ns, st.activeUsers, st.lastUser, st.todaysCalls,
             MapPut(st.updatedNodes, Atoi(node), ns[node]))

(* variants of DisconnectBranch: delete(activeUsers, node) is missing;     *)
(* the "New User" test is missing; delete(nodeStatus, node) is missing;    *)
(* the row is taken from nodeStatus before the delete                      *)
DisconnectBranch_KeepUser(m, st, file, day) ==
    LET node == m[1]
        lu == IF node \in DOMAIN st.activeUsers
                 /\ st.activeUsers[node] # "New User"
              THEN st.activeUsers[node]
              ELSE st.lastUser
    IN State(MapDelete(st.nodeStatus, node), st.activeUsers,
             lu, countTodaysCalls(file, day),
             MapPut(st.updatedNodes, Atoi(node), IdleStatus))

DisconnectBranch_NoPlaceholderCheck(m, st, file, day) ==
    LET node == m[1]
        lu == IF node \in DOMAIN st.activeUsers
              THEN st.activeUsers[node]
              ELSE st.lastUser
    IN State(MapDelete(st.nodeStatus, node), MapDelete(st.activeUsers, node),
             lu, countTodaysCalls(file, day),
             MapPut(st.updatedNodes, Atoi(node), IdleStatus))

DisconnectBranch_KeepStatus(m, st, file, day) ==
    LET node == m[1]
        lu == IF node \in DOMAIN st.activeUsers
                 /\ st.activeUsers[node] # "New User"
              THEN st.activeUsers[node]
              ELSE st.lastUser
    IN State(st.nodeStatus, MapDelete(st.activeUsers, node),
             lu, countTodaysCalls(file, day),
             MapPut(st.updatedNodes, Atoi(node), IdleStatus))

DisconnectBranch_StaleRow(m, st, file, day) ==
    LET node == m[1]
        lu == IF node \in DOMAIN st.activeUsers
                 /\ st.activeUsers[node] # "New User"
              THEN st.activeUsers[node]
              ELSE st.lastUser
    IN State(MapDelete(st.nodeStatus, node), MapDelete(st.activeUsers, node),
             lu, countTodaysCalls(file, day),
             MapPut(st.updatedNodes, Atoi(node),
                    IF node \in DOMAIN st.nodeStatus
                    THEN st.nodeStatus[node] ELSE IdleStatus))

(* variant of DisconnectBranch: the "Last User" is the user shown for the  *)
(* node                                                                    *)
DisconnectBranch_DisplayedUser(m, st, file, day) ==
    LET node == m[1]
        lu == IF /\ node \in DOMAIN st.activeUsers
                 /\ node \in DOMAIN st.nodeStatus
                 /\ st.nodeStatus[node].User # "New User"
              THEN st.nodeStatus[node].User
              ELSE st.lastUser
    IN State(MapDelete(st.nodeStatus, node), MapDelete(st.activeUsers, node),
             lu, countTodaysCalls(file, day),
             MapPut(st.updatedNodes, Atoi(node), IdleStatus))

(* variant of DisconnectBranch: a node without a tracked user resets the   *)
(* "Last User"                                                            *)
DisconnectBranch_ClearsLastUser(m, st, file, day) ==
    LET node == m[1]
        lu == IF node \in DOMAIN st.activeUsers
                 /\ st.activeUsers[node] # "New User"
              THEN st.activeUsers[node]
              ELSE "None"
    IN State(MapDelete(st.nodeStatus, node), MapDelete(st.activeUsers, node),
             lu, countTodaysCalls(file, day),
             MapPut(st.updatedNodes, Atoi(node), IdleStatus))

(* variant of DisconnectBranch: every entry of activeUsers is dropped *)
DisconnectBranch_ClearsAll(m, st, file, day) ==
    LET node == m[1]
        lu == IF node \in DOMAIN st.activeUsers
                 /\ st.activeUsers[node] # "New User"
              THEN st.activeUsers[node]
              ELSE st.lastUser
    IN State(MapDelete(st.nodeStatus, node), EmptyMap,
             lu, countTodaysCalls(file, day),
             MapPut(st.updatedNodes, Atoi(node), IdleStatus))

DisconnectBranch(m, st, file, day) ==
    LET node == m[1]
        lu == IF node \in DOMAIN st.activeUsers
                 /\ st.activeUsers[node] # "New User"
              THEN st.activeUsers[node]
              ELSE st.lastUser
    IN State(MapDelete(st.nodeStatus, node), MapDelete(st.activeUsers, node),
             lu, countTodaysCalls(file, day),
             MapPut(st.updatedNodes, Atoi(node), IdleStatus))

(* The chain: the first pattern that matches decides the branch. *)

(* variant of Classify: newUserPattern is tried before loginPattern *)
Classify_SignupFirst(line) ==
    IF Len(connectionPattern(line)) > 0
    THEN [type |-> "Connect", m |-> connectionPattern(line)]
    ELSE IF Len(newUserPattern(line)) > 0
    THEN [type |-> "NewUserSignup", m |-> newUserPattern(line)]
    ELSE IF Len(loginPattern(line)) > 0
    THEN [type |-> "Login", m |-> loginPattern(line)]
    ELSE IF Len(menuPattern(line)) > 0
    THEN [type |-> "MenuChange", m |-> menuPattern(line)]
    ELSE IF Len(logPattern(line)) > 0
    THEN [type |-> "GenericActivity", m |-> logPattern(line)]
    ELSE IF Len(disconnectPattern(line)) > 0
    THEN [type |-> "Disconnect", m |-> disconnectPattern(line)]
    ELSE [type |-> "None", m |-> <<>>]

(* variant of Classify: a login line of a node that activeUsers already    *)
(* tracks is no event                                                      *)
Classify_LoginOnce(line) ==
    IF Len(connectionPattern(line)) > 0
    THEN [type |-> "Connect", m |-> connectionPattern(line)]
    ELSE IF /\ Len(loginPattern(line)) > 0
            /\ loginPattern(line)[2] \notin DOMAIN activeUsers
    THEN [type |-> "Login", m |-> loginPattern(line)]
    ELSE IF Len(newUserPattern(line)) > 0 /\ Len(loginPattern(line)) = 0
    THEN [type |-> "NewUserSignup", m |-> newUserPattern(line)]
    ELSE IF Len(menuPattern(line)) > 0
    THEN [type |-> "MenuChange", m |-> menuPattern(line)]
    ELSE IF Len(logPattern(line)) > 0
    THEN [type |-> "GenericActivity", m |-> logPattern(line)]
    ELSE IF Len(disconnectPattern(line)) > 0
    THEN [type |-> "Disconnect", m |-> disconnectPattern(line)]
    ELSE [type |-> "None", m |-> <<>>]

Classify(line) ==
    IF Len(connectionPattern(line)) > 0
    THEN [type |-> "Connect", m |-> connectionPattern(line)]
    ELSE IF Len(loginPattern(line)) > 0
    THEN [type |-> "Login", m |-> loginPattern(line)]
    ELSE IF Len(newUserPattern(line)) > 0
    THEN [type |-> "NewUserSignup", m |-> newUserPattern(line)]
    ELSE IF Len(menuPattern(line)) > 0
    THEN [type |-> "MenuChange", m |-> menuPattern(line)]
    ELSE IF Len(logPattern(line)) > 0
    THEN [type |-> "GenericActivity", m |-> logPattern(line)]
    ELSE IF Len(disconnectPattern(line)) > 0
    THEN [type |-> "Disconnect", m |-> disconnectPattern(line)]
    ELSE [type |-> "None", m |-> <<>>]

(* the branches that end with todaysCalls = countTodaysCalls(logFilePath) *)
Recounts(line) == Classify(line).type \in {"Login", "Disconnect"}

(* variant of ApplyLine: the recount is done for a line of no branch too *)
ApplyLine_UnmatchedRecounts(line, st, file, day) ==
    LET ev == Classify(line)
    IN CASE ev.type = "Connect" -> ConnectBranch(ev.m, st)
         [] ev.type = "Login" -> LoginBranch(ev.m, st, file, day)
         [] ev.type = "NewUserSignup" -> NewUserBranch(ev.m, st)
         [] ev.type = "MenuChange" -> MenuBranch(ev.m, st)
         [] ev.type = "GenericActivity" -> ActivityBranch(ev.m, st)
         [] ev.type = "Disconnect" -> DisconnectBranch(ev.m, st, file, day)
         [] OTHER -> State(st.nodeStatus, st.activeUsers, st.lastUser,
                           countTodaysCalls(file, day), st.updatedNodes)

ApplyLine(line, st, file, day) ==
    LET ev == Classify(line)
    IN CASE ev.type = "Connect" -> ConnectBranch(ev.m, st)
         [] ev.type = "Login" -> LoginBranch(ev.m, st, file, day)
         [] ev.type = "NewUserSignup" -> NewUserBranch(ev.m, st)
         [] ev.type = "MenuChange" -> MenuBranch(ev.m, st)
         [] ev.type = "GenericActivity" -> ActivityBranch(ev.m, st)
         [] ev.type = "Disconnect" -> DisconnectBranch(ev.m, st, file, day)
         [] OTHER -> st

---------------------------------------------------------------------------
(* Drawing.  The terminal is kept as the rows of the table (by node        *)
(* number), the "Last User" line and the "Today's Calls" line.             *)

NoDraw == [emitted |-> FALSE, rows |-> EmptyMap, lastUser |-> "", calls |-> 0]

Redraw(st) ==
    [emitted |-> TRUE, rows |-> st.updatedNodes, lastUser |-> st.lastUser,
     calls |-> st.todaysCalls]

(* DrawTableRow for every entry of updatedNodes, then the two stat lines *)
Paint(scr, d) ==
    [rows |-> [r \in (DOMAIN scr.rows) \cup (DOMAIN d.rows) |->
                  IF r \in DOMAIN d.rows THEN d.rows[r] ELSE scr.rows[r]],
     lastUser |-> d.lastUser, calls |-> d.calls]

(* variant of DrawTable: a row for every entry of nodeStatus as well *)
DrawTable_EveryEntry(ns, n) ==
    [i \in (1..n) \cup {Atoi(k) : k \in DOMAIN ns} |->
        IF Itoa(i) \in DOMAIN ns THEN ns[Itoa(i)] ELSE IdleStatus]

(* DrawTable: one row for each of 1..maxNodes *)
DrawTable(ns, n) ==
    [i \in 1..n |-> IF Itoa(i) \in DOMAIN ns THEN ns[Itoa(i)] ELSE IdleStatus]

---------------------------------------------------------------------------
(* The state after main has set up, and the steps. *)

InitialLogs(texts) ==
    UNION { [1..k -> {Stamp(t, 1) : t \in texts}] : k \in 0..MaxBacklog }

Init ==
    /\ lineSet \in LineSets
    /\ today = 1
    /\ logFile \in InitialLogs(lineSet)
    /\ pos = 0
    /\ nodeStatus = EmptyMap
    /\ activeUsers = EmptyMap
    /\ lastUser = findLastLoggedOffUser(logFile, maxLogLines)
    /\ todaysCalls = countTodaysCalls(logFile, today)
    /\ countedDay = today
    /\ updatedNodes = EmptyMap
    /\ tickPending = FALSE
    /\ drawn = NoDraw
    /\ screen = [rows |-> DrawTable(nodeStatus, maxNodes),
                 lastUser |-> lastUser, calls |-> todaysCalls]
    /\ pc = "receive"
    /\ logState = "present"
    /\ tailOpen = TRUE

(* The BBS writes one more line to talisman.log. *)
AppendLine ==
    /\ Len(logFile) < MaxLog
    /\ Len(logFile) - pos < MaxBacklog
    /\ \E t \in lineSet : logFile' = Append(logFile, Stamp(t, today))
    /\ UNCHANGED <<pos, lineSet, today, nodeStatus, activeUsers, lastUser,
                   todaysCalls, countedDay, updatedNodes, tickPending, drawn,
                   screen, ctl>>

(* The local date changes. *)
Midnight ==
    /\ today < MaxDay
    /\ today' = today + 1
    /\ UNCHANGED <<logFile, pos, lineSet, nodeStatus, activeUsers, lastUser,
                   todaysCalls, countedDay, updatedNodes, tickPending, drawn,
                   screen, ctl>>

(* The ticker fires; a tick is dropped while one is still buffered. *)
Tick ==
    /\ ~tickPending
    /\ tickPending' = TRUE
    /\ UNCHANGED <<logFile, pos, lineSet, today, nodeStatus, activeUsers,
                   lastUser, todaysCalls, countedDay, updatedNodes, drawn,
                   screen, ctl>>

(* The goroutine receives the next line, applies it, and redraws if a tick *)
(* is buffered.                                                            *)
ProcessLine ==
    /\ pos < Len(logFile)
    /\ LET line == logFile[pos + 1]
           st == ApplyLine(line,
                           State(nodeStatus, activeUsers, lastUser,
                                 todaysCalls, EmptyMap),
                           logFile, today)
       IN /\ pos' = pos + 1
          /\ nodeStatus' = st.nodeStatus
          /\ activeUsers' = st.activeUsers
          /\ lastUser' = st.lastUser
          /\ todaysCalls' = st.todaysCalls
          /\ countedDay' = IF Recounts(line) THEN today ELSE countedDay
          /\ updatedNodes' = st.updatedNodes
          /\ drawn' = IF tickPending THEN Redraw(st) ELSE NoDraw
          /\ screen' = IF tickPending THEN Paint(screen, Redraw(st)) ELSE screen
          /\ tickPending' = FALSE
    /\ UNCHANGED <<logFile, lineSet, today, ctl>>

Next == AppendLine \/ Midnight \/ Tick \/ ProcessLine

Spec == Init /\ [][Next]_vars

(* The ticker keeps firing and the goroutine takes every line it is given. *)
FairSpec == Spec /\ WF_vars(Tick) /\ WF_vars(ProcessLine)

---------------------------------------------------------------------------
(* The two scans of main on their own: the BBS writes the log over the     *)
(* days, and the console is started on the log as it is then, which        *)
(* computes lastUser and todaysCalls before any line is received.          *)

LogInit ==
    /\ lineSet \in LineSets
    /\ today = 1
    /\ logFile = <<>>
    /\ pos = 0
    /\ nodeStatus = EmptyMap
    /\ activeUsers = EmptyMap
    /\ lastUser = findLastLoggedOffUser(logFile, maxLogLines)
    /\ todaysCalls = countTodaysCalls(logFile, today)
    /\ countedDay = today
    /\ updatedNodes = EmptyMap
    /\ tickPending = FALSE
    /\ drawn = NoDraw
    /\ screen = [rows |-> DrawTable(nodeStatus, maxNodes),
                 lastUser |-> lastUser, calls |-> todaysCalls]
    /\ pc = "receive"
    /\ logState = "present"
    /\ tailOpen = TRUE

WriteLine ==
    /\ Len(logFile) < MaxLog
    /\ \E t \in lineSet : logFile' = Append(logFile, Stamp(t, today))
    /\ UNCHANGED <<pos, lineSet, today, nodeStatus, activeUsers, lastUser,
                   todaysCalls, countedDay, updatedNodes, tickPending, drawn,
                   screen, ctl>>

Startup ==
    /\ lastUser' = findLastLoggedOffUser(logFile, maxLogLines)
    /\ todaysCalls' = countTodaysCalls(logFile, today)
    /\ countedDay' = today
    /\ screen' = [rows |-> DrawTable(nodeStatus, maxNodes),
                  lastUser |-> lastUser', calls |-> todaysCalls']
    /\ UNCHANGED <<logFile, pos, lineSet, today, nodeStatus, activeUsers,
                   updatedNodes, tickPending, drawn, ctl>>

LogNext == WriteLine \/ Midnight \/ Startup

LogSpec == LogInit /\ [][LogNext]_vars

---------------------------------------------------------------------------
(* main statement by statement: the check of the log file, the tail, the   *)
(* initial screen, and the goroutine whose handler runs one write of the   *)
(* shared variables at a time, while the BBS writes, the ticker fires and  *)
(* the tail may stop.  The values of pc:                                   *)
(*   "checkLog"       os.Stat / os.Create of talisman.log                  *)
(*   "tailFile"       tail.TailFile with Follow                            *)
(*   "initialScreen"  findLastLoggedOffUser, DrawTable, countTodaysCalls   *)
(*   "receive"        case line := <-t.Lines                               *)
(*   "apply1".."apply3"  the statements of the matching branch             *)
(*   "recount"        todaysCalls = countTodaysCalls(logFilePath)          *)
(*   "select"         the inner select on ticker.C                         *)
(*   "exited"         log.Fatalf;  "panicked"  run-time panic              *)
(*   "quit"           main has returned from HandleKeyPress                *)
(* HandleKeyPress, which main runs meanwhile, reads os.Stdin and none of   *)
(* the variables; when it returns main returns, which ends the process     *)
(* and the goroutine with it, wherever the goroutine is.                   *)

Handler == {"apply1", "apply2", "apply3", "recount", "select"}

Running == pc \in Handler \cup {"receive"}

(* variant of CheckLog: an absent log file is fatal *)
CheckLog_Fatal(ls) ==
    CASE ls = "present" -> [pc |-> "tailFile", logState |-> "present"]
      [] OTHER -> [pc |-> "exited", logState |-> ls]

(* os.Stat, and os.Create of an absent file, which fails when the file     *)
(* cannot be created                                                       *)
CheckLog(ls) ==
    CASE ls = "present" -> [pc |-> "tailFile", logState |-> "present"]
      [] ls = "absent" -> [pc |-> "tailFile", logState |-> "created"]
      [] OTHER -> [pc |-> "exited", logState |-> ls]

(* variant of StepOf: the login branch records the user in activeUsers     *)
(* before it gives the node its nodeStatus entry                           *)
StepOf_IdentityFirst(type, p, m, st, file, day) ==
    CASE type = "Connect" -> [pc |-> "select", st |-> ConnectBranch(m, st)]
      [] type = "NewUserSignup" ->
           [pc |-> "select", st |-> NewUserBranch(m, st)]
      [] type = "MenuChange" -> [pc |-> "select", st |-> MenuBranch(m, st)]
      [] type = "GenericActivity" ->
           [pc |-> "select", st |-> ActivityBranch(m, st)]
      [] type = "Login" /\ p = "apply1" ->
           [pc |-> "apply2",
            st |-> State(st.nodeStatus, MapPut(st.activeUsers, m[2], m[1]),
                         st.lastUser, st.todaysCalls, st.updatedNodes)]
      [] type = "Login" /\ p = "apply2" ->
           LET ns == MapPut(st.nodeStatus, m[2],
                            NodeStatus(m[1], Str("logging in...")))
           IN [pc |-> "recount",
               st |-> State(ns, st.activeUsers, st.lastUser, st.todaysCalls,
                            MapPut(st.updatedNodes, Atoi(m[2]), ns[m[2]]))]
      [] type = "Disconnect" /\ p = "apply1" ->
           [pc |-> "apply2",
            st |-> State(st.nodeStatus, st.activeUsers,
                         IF m[1] \in DOMAIN st.activeUsers
                            /\ st.activeUsers[m[1]] # "New User"
                         THEN st.activeUsers[m[1]] ELSE st.lastUser,
                         st.todaysCalls, st.updatedNodes)]
      [] type = "Disconnect" /\ p = "apply2" ->
           [pc |-> "apply3",
            st |-> State(st.nodeStatus, MapDelete(st.activeUsers, m[1]),
                         st.lastUser, st.todaysCalls, st.updatedNodes)]
      [] type = "Disconnect" /\ p = "apply3" ->
           [pc |-> "recount",
            st |-> State(MapDelete(st.nodeStatus, m[1]), st.activeUsers,
                         st.lastUser, st.todaysCalls,
                         MapPut(st.updatedNodes, Atoi(m[1]), IdleStatus))]
      [] OTHER -> [pc |-> "select", st |-> st]

(* one statement group of the branch of an event of type type: the next pc *)
(* and the variables after it                                              *)
StepOf(type, p, m, st, file, day) ==
    CASE type = "Connect" -> [pc |-> "select", st |-> ConnectBranch(m, st)]
      [] type = "NewUserSignup" ->
           [pc |-> "select", st |-> NewUserBranch(m, st)]
      [] type = "MenuChange" -> [pc |-> "select", st |-> MenuBranch(m, st)]
      [] type = "GenericActivity" ->
           [pc |-> "select", st |-> ActivityBranch(m, st)]
      [] type = "Login" /\ p = "apply1" ->
           LET ns == MapPut(st.nodeStatus, m[2],
                            NodeStatus(m[1], Str("logging in...")))
           IN [pc |-> "apply2",
               st |-> State(ns, st.activeUsers, st.lastUser, st.todaysCalls,
                            MapPut(st.updatedNodes, Atoi(m[2]), ns[m[2]]))]
      [] type = "Login" /\ p = "apply2" ->
           [pc |-> "recount",
            st |-> State(st.nodeStatus, MapPut(st.activeUsers, m[2], m[1]),
                         st.lastUser, st.todaysCalls, st.updatedNodes)]
      [] type = "Disconnect" /\ p = "apply1" ->
           [pc |-> "apply2",
            st |-> State(st.nodeStatus, st.activeUsers,
                         IF m[1] \in DOMAIN st.activeUsers
                            /\ st.activeUsers[m[1]] # "New User"
                         THEN st.activeUsers[m[1]] ELSE st.lastUser,
                         st.todaysCalls, st.updatedNodes)]
      [] type = "Disconnect" /\ p = "apply2" ->
           [pc |-> "apply3",
            st |-> State(st.nodeStatus, MapDelete(st.activeUsers, m[1]),
                         st.lastUser, st.todaysCalls, st.updatedNodes)]
      [] type = "Disconnect" /\ p = "apply3" ->
           [pc |-> "recount",
            st |-> State(MapDelete(st.nodeStatus, m[1]), st.activeUsers,
                         st.lastUser, st.todaysCalls,
                         MapPut(st.updatedNodes, Atoi(m[1]), IdleStatus))]
      [] OTHER -> [pc |-> "select", st |-> st]

(* the line sets of the runs followed statement by statement: a whole     *)
(* session on node 1, and the logins, the signup and a line of no event   *)
MainLineSets ==
    { { ConnLine("1.2.3.4", "1"), LoginLine("bob", "1"),
        MenuLine("bob", "menus/main.toml", "1"), OffLine("1") },
      { LoginLine("New User", "1"), NewUserLine("1"), OffLine("1"),
        OtherLine } }

MainInit ==
    /\ lineSet \in MainLineSets
    /\ today = 1
    /\ logState \in {"present", "absent", "uncreatable"}
    /\ logFile \in IF logState = "present" THEN InitialLogs(lineSet)
                   ELSE {<<>>}
    /\ pos = 0
    /\ nodeStatus = EmptyMap
    /\ activeUsers = EmptyMap
    /\ lastUser = "None"
    /\ todaysCalls = 0
    /\ countedDay = today
    /\ updatedNodes = EmptyMap
    /\ tickPending = FALSE
    /\ drawn = NoDraw
    /\ screen = [rows |-> EmptyMap, lastUser |-> "", calls |-> 0]
    /\ pc = "checkLog"
    /\ tailOpen = FALSE

CheckLogFile ==
    /\ pc = "checkLog"
    /\ pc' = CheckLog(logState).pc
    /\ logState' = CheckLog(logState).logState
    /\ UNCHANGED <<logFile, pos, lineSet, today, nodeStatus, activeUsers,
                   lastUser, todaysCalls, countedDay, updatedNodes,
                   tickPending, drawn, screen, tailOpen>>

TailFile ==
    /\ pc = "tailFile"
    /\ tailOpen' = TRUE
    /\ pc' = "initialScreen"
    /\ UNCHANGED <<logFile, pos, lineSet, today, nodeStatus, activeUsers,
                   lastUser, todaysCalls, countedDay, updatedNodes,
                   tickPending, drawn, screen, logState>>

InitialScreen ==
    /\ pc = "initialScreen"
    /\ lastUser' = findLastLoggedOffUser(logFile, maxLogLines)
    /\ todaysCalls' = countTodaysCalls(logFile, today)
    /\ countedDay' = today
    /\ screen' = [rows |-> DrawTable(nodeStatus, maxNodes),
                  lastUser |-> lastUser', calls |-> todaysCalls']
    /\ pc' = "receive"
    /\ UNCHANGED <<logFile, pos, lineSet, today, nodeStatus, activeUsers,
                   updatedNodes, tickPending, drawn, logState, tailOpen>>

(* the BBS writes a line to the file the tail follows *)
BbsWrites ==
    /\ Running
    /\ tailOpen
    /\ AppendLine

(* variant of TickerFires: the tick draws the rows and the stat lines *)
TickerFires_Draws ==
    LET d == Redraw(State(nodeStatus, activeUsers, lastUser, todaysCalls,
                          updatedNodes))
    IN /\ Running
       /\ ~tickPending
       /\ tickPending' = TRUE
       /\ drawn' = d
       /\ screen' = Paint(screen, d)
       /\ UNCHANGED <<logFile, pos, lineSet, today, nodeStatus, activeUsers,
                      lastUser, todaysCalls, countedDay, updatedNodes, ctl>>

(* the ticker made after the initial screen fires *)
TickerFires ==
    /\ Running
    /\ Tick

(* variant of Receive: with a tick buffered the line is taken and the      *)
(* handler goes to the redraw at once                                      *)
Receive_DrainsOnTick ==
    /\ pc = "receive"
    /\ IF ~tailOpen THEN pc' = "panicked" /\ UNCHANGED <<pos, updatedNodes>>
       ELSE /\ pos < Len(logFile)
            /\ pos' = pos + 1
            /\ updatedNodes' = EmptyMap
            /\ pc' = IF Classify(logFile[pos + 1]).type = "None" \/ tickPending
                     THEN "select" ELSE "apply1"
    /\ UNCHANGED <<logFile, lineSet, today, nodeStatus, activeUsers, lastUser,
                   todaysCalls, countedDay, tickPending, drawn, screen,
                   logState, tailOpen>>

(* case line := <-t.Lines and the make of updatedNodes; the receive from   *)
(* the closed channel gives a nil line, and line.Text then panics          *)
Receive ==
    /\ pc = "receive"
    /\ IF ~tailOpen THEN pc' = "panicked" /\ UNCHANGED <<pos, updatedNodes>>
       ELSE /\ pos < Len(logFile)
            /\ pos' = pos + 1
            /\ updatedNodes' = EmptyMap
            /\ pc' = IF Classify(logFile[pos + 1]).type = "None"
                     THEN "select" ELSE "apply1"
    /\ UNCHANGED <<logFile, lineSet, today, nodeStatus, activeUsers, lastUser,
                   todaysCalls, countedDay, tickPending, drawn, screen,
                   logState, tailOpen>>

(* a line delivered with Err set: the handler reads line.Text only, the    *)
(* notice of the tail, which no pattern matches                            *)
ReceiveErrLine ==
    /\ pc = "receive"
    /\ tailOpen
    /\ updatedNodes' = EmptyMap
    /\ pc' = "select"
    /\ UNCHANGED <<logFile, pos, lineSet, today, nodeStatus, activeUsers,
                   lastUser, todaysCalls, countedDay, tickPending, drawn,
                   screen, logState, tailOpen>>

(* the tail stops following (the file is removed or rolled, a read fails)  *)
(* and closes t.Lines; the goroutine meets the closed channel at its next  *)
(* receive, so the step is taken when it is there                          *)
SourceFails ==
    /\ pc = "receive"
    /\ tailOpen
    /\ tailOpen' = FALSE
    /\ UNCHANGED <<logFile, pos, lineSet, today, nodeStatus, activeUsers,
                   lastUser, todaysCalls, countedDay, updatedNodes,
                   tickPending, drawn, screen, pc, logState>>

ApplyStep ==
    /\ pc \in {"apply1", "apply2", "apply3"}
    /\ LET ev == Classify(logFile[pos])
           r == StepOf(ev.type, pc, ev.m,
                       State(nodeStatus, activeUsers, lastUser, todaysCalls,
                             updatedNodes),
                       logFile, today)
       IN /\ pc' = r.pc
          /\ nodeStatus' = r.st.nodeStatus
          /\ activeUsers' = r.st.activeUsers
          /\ lastUser' = r.st.lastUser
          /\ updatedNodes' = r.st.updatedNodes
    /\ UNCHANGED <<logFile, pos, lineSet, today, todaysCalls, countedDay,
                   tickPending, drawn, screen, logState, tailOpen>>

(* the scan of the log file that ends the login and the disconnect branch *)
Recount ==
    /\ pc = "recount"
    /\ todaysCalls' = countTodaysCalls(logFile, today)
    /\ countedDay' = today
    /\ pc' = "select"
    /\ UNCHANGED <<logFile, pos, lineSet, today, nodeStatus, activeUsers,
                   lastUser, updatedNodes, tickPending, drawn, screen,
                   logState, tailOpen>>

(* variant of Select: the ticker case runs wherever the handler is *)
Select_AnyTime ==
    LET st == State(nodeStatus, activeUsers, lastUser, todaysCalls,
                    updatedNodes)
    IN /\ pc \in Handler
       /\ pc = "select" \/ tickPending
       /\ drawn' = IF tickPending THEN Redraw(st) ELSE NoDraw
       /\ screen' = IF tickPending THEN Paint(screen, Redraw(st)) ELSE screen
       /\ tickPending' = FALSE
       /\ pc' = IF pc = "select" THEN "receive" ELSE pc
       /\ UNCHANGED <<logFile, pos, lineSet, today, nodeStatus, activeUsers,
                      lastUser, todaysCalls, countedDay, updatedNodes,
                      logState, tailOpen>>

(* the inner select: the rows of updatedNodes and the two stat lines are   *)
(* written when a tick is buffered                                         *)
Select ==
    LET st == State(nodeStatus, activeUsers, lastUser, todaysCalls,
                    updatedNodes)
    IN /\ pc = "select"
       /\ drawn' = IF tickPending THEN Redraw(st) ELSE NoDraw
       /\ screen' = IF tickPending THEN Paint(screen, Redraw(st)) ELSE screen
       /\ tickPending' = FALSE
       /\ pc' = "receive"
       /\ UNCHANGED <<logFile, pos, lineSet, today, nodeStatus, activeUsers,
                      lastUser, todaysCalls, countedDay, updatedNodes,
                      logState, tailOpen>>

(* the bytes os.Stdin.Read gives HandleKeyPress, and a failed read *)
Keys == {"q", "Q", "ESC", "x", "error"}

QuitKey(b) == b \in {"q", "Q", "ESC"}

(* variant of HandleKeyPress: before main returns the handler draws the    *)
(* rows and the stat lines of a buffered tick                              *)
HandleKeyPress_FinalDraw ==
    LET st == State(nodeStatus, activeUsers, lastUser, todaysCalls,
                    updatedNodes)
    IN /\ Running
       /\ \E b \in Keys :
             IF QuitKey(b)
             THEN /\ pc' = "quit"
                  /\ drawn' = IF tickPending THEN Redraw(st) ELSE drawn
                  /\ screen' = IF tickPending THEN Paint(screen, Redraw(st))
                                ELSE screen
                  /\ tickPending' = FALSE
             ELSE UNCHANGED <<pc, drawn, screen, tickPending>>
       /\ UNCHANGED <<logFile, pos, lineSet, today, nodeStatus, activeUsers,
                      lastUser, todaysCalls, countedDay, updatedNodes,
                      logState, tailOpen>>

(* one read of HandleKeyPress: q, Q or ESC ends the loop and main returns; *)
(* any other byte and a failed read go round the loop                      *)
HandleKeyPress ==
    /\ Running
    /\ \E b \in Keys : pc' = IF QuitKey(b) THEN "quit" ELSE pc
    /\ UNCHANGED <<logFile, pos, lineSet, today, nodeStatus, activeUsers,
                   lastUser, todaysCalls, countedDay, updatedNodes,
                   tickPending, drawn, screen, logState, tailOpen>>

MainNext ==
    \/ CheckLogFile \/ TailFile \/ InitialScreen
    \/ BbsWrites \/ TickerFires \/ SourceFails
    \/ Receive \/ ReceiveErrLine \/ ApplyStep \/ Recount \/ Select
    \/ HandleKeyPress

MainSpec == MainInit /\ [][MainNext]_vars

---------------------------------------------------------------------------
(* The events the goroutine has applied, read back from the log. *)

Ev(i) == Classify(logFile[i])

EventNode(ev) ==
    CASE ev.type = "Connect" -> ev.m[2]
      [] ev.type = "Login" -> ev.m[2]
      [] ev.type = "NewUserSignup" -> ev.m[1]
      [] ev.type = "MenuChange" -> ev.m[3]
      [] ev.type = "GenericActivity" -> ev.m[4]
      [] ev.type = "Disconnect" -> ev.m[1]
      [] OTHER -> ""

IsEvent(i, type, node) ==
    /\ i \in 1..Len(logFile)
    /\ Ev(i).type = type
    /\ EventNode(Ev(i)) = node

IsLogin(i, node, user) == IsEvent(i, "Login", node) /\ Ev(i).m[1] = user

(* index of the last Disconnect(node) among the first k lines, 0 if none *)
LastOff(node, k) ==
    LET offs == {i \in 1..k : IsEvent(i, "Disconnect", node)}
    IN IF offs = {} THEN 0 ELSE CHOOSE i \in offs : \A j \in offs : j <= i

(* the Logins on node among the first k lines since its last Disconnect *)
LoginsSinceOff(node, k) ==
    {i \in (LastOff(node, k) + 1)..k : IsEvent(i, "Login", node)}

(* the latest identity-bearing event (Login or NewUserSignup) on node *)
LatestIdentityEvent(node, k) ==
    LET ids == {i \in 1..k : IsEvent(i, "Login", node)
                             \/ IsEvent(i, "NewUserSignup", node)}
    IN IF ids = {} THEN "None"
       ELSE Ev(CHOOSE i \in ids : \A j \in ids : j <= i).type

StatusOrIdle(ns, node) == IF node \in DOMAIN ns THEN ns[node] ELSE IdleStatus

(* the step in which the goroutine handles line pos + 1 *)
Handles(type) ==
    /\ pos < Len(logFile)
    /\ pos' = pos + 1
    /\ Ev(pos + 1).type = type

---------------------------------------------------------------------------
(* C1: Connect(n), Login(n, u), MenuChange(n, u, menu), Disconnect(n)      *)
(* applied in that order, for u other than "New User", leave node n with   *)
(* no nodeStatus entry and no activeUsers entry, and lastUser equal to u.  *)
C1_SessionEndsIdle ==
    (/\ pos >= 4
     /\ Ev(pos).type = "Disconnect"
     /\ Ev(pos - 2).type = "Login"
     /\ Ev(pos - 2).m[1] # "New User"
     /\ IsEvent(pos - 3, "Connect", EventNode(Ev(pos)))
     /\ IsEvent(pos - 2, "Login", EventNode(Ev(pos)))
     /\ IsEvent(pos - 1, "MenuChange", EventNode(Ev(pos)))
     /\ Ev(pos - 1).m[1] = Ev(pos - 2).m[1])
    => /\ EventNode(Ev(pos)) \notin DOMAIN nodeStatus
       /\ EventNode(Ev(pos)) \notin DOMAIN activeUsers
       /\ lastUser = Ev(pos - 2).m[1]

C1_Witness ==
    /\ pos = 4
    /\ IsEvent(1, "Connect", "1")
    /\ IsLogin(2, "1", "bob")
    /\ IsEvent(3, "MenuChange", "1")
    /\ IsEvent(4, "Disconnect", "1")
    /\ nodeStatus = EmptyMap
    /\ activeUsers = EmptyMap
    /\ lastUser = "bob"

(* C2 as stated: nodeStatus and activeUsers always have the same keys. *)
C2_SameKeys == DOMAIN nodeStatus = DOMAIN activeUsers

(* C2 amended: the keys of activeUsers are exactly the keys of nodeStatus  *)
(* whose node has had a Login since its last Disconnect; the other keys of *)
(* nodeStatus (connected, signing up or active without a Login) have no    *)
(* activeUsers entry.                                                      *)
C2_IdentityKeysWithinStatusKeys ==
    DOMAIN activeUsers =
        {n \in DOMAIN nodeStatus : LoginsSinceOff(n, pos) # {}}

C2_Witness ==
    /\ DOMAIN activeUsers # {}
    /\ DOMAIN activeUsers # DOMAIN nodeStatus
    /\ DOMAIN activeUsers \subseteq DOMAIN nodeStatus

(* C3: lastUser changes only in the step that applies Disconnect(n) while  *)
(* activeUsers[n] exists and is not "New User", and then it becomes        *)
(* activeUsers[n]; every other step leaves it as it is.                    *)
C3_LastUserOnlyByDisconnect ==
    [][IF /\ Handles("Disconnect")
          /\ Ev(pos + 1).m[1] \in DOMAIN activeUsers
          /\ activeUsers[Ev(pos + 1).m[1]] # "New User"
       THEN lastUser' = activeUsers[Ev(pos + 1).m[1]]
       ELSE lastUser' = lastUser]_vars

C3_Witness ==
    /\ pos >= 2
    /\ IsEvent(pos, "Disconnect", "1")
    /\ IsLogin(pos - 1, "1", "bob")
    /\ lastUser = "bob"

C5_DisconnectRemovesBoth ==
    (pos >= 1 /\ Ev(pos).type = "Disconnect")
    => /\ Ev(pos).m[1] \notin DOMAIN nodeStatus
       /\ Ev(pos).m[1] \notin DOMAIN activeUsers

C5_Witness ==
    /\ pos >= 3
    /\ IsLogin(pos - 2, "1", "bob")
    /\ IsEvent(pos - 1, "Disconnect", "1")
    /\ IsEvent(pos, "Disconnect", "1")
    /\ "1" \notin DOMAIN nodeStatus
    /\ "1" \notin DOMAIN activeUsers

(* C6: two events for the same node n applied with no tick between them    *)
(* are followed, at the redraw of the next tick, by exactly one row for n, *)
(* showing the state the second event produced (the line whose handler     *)
(* consumes the tick is not about n, so that state is still current).      *)
C6_CoalescedRowAtNextTick ==
    [][(/\ pos >= 2
        /\ Ev(pos).type # "None"
        /\ Ev(pos - 1).type # "None"
        /\ EventNode(Ev(pos)) = EventNode(Ev(pos - 1))
        /\ ~drawn.emitted
        /\ tickPending
        /\ pos' = pos + 1
        /\ EventNode(Ev(pos + 1)) # EventNode(Ev(pos)))
       => /\ Atoi(EventNode(Ev(pos))) \in DOMAIN drawn'.rows
          /\ drawn'.rows[Atoi(EventNode(Ev(pos)))]
                = StatusOrIdle(nodeStatus, EventNode(Ev(pos)))]_vars

(* C7: a node leaves the dirty set (updatedNodes) only through a redraw    *)
(* that includes it.                                                       *)
C7_DirtyLeavesOnlyByRedraw ==
    [][\A r \in DOMAIN updatedNodes :
          r \in DOMAIN updatedNodes' \/ (drawn.emitted /\ r \in DOMAIN drawn.rows)
      ]_vars

(* C8: a row of the table that differs from the node's state is eventually *)
(* redrawn with that state, as long as the ticker keeps firing.            *)
C8_ChangeEventuallyShown ==
    \A r \in 1..maxNodes :
        (screen.rows[r] # StatusOrIdle(nodeStatus, Itoa(r)))
            ~> (screen.rows[r] = StatusOrIdle(nodeStatus, Itoa(r)))

(* C9: when no node is dirty at the consumption of a tick, nothing is      *)
(* drawn: no row, no "Last User" line, no "Today's Calls" line.            *)
C9_NothingDrawnWhenClean ==
    drawn.emitted => DOMAIN updatedNodes # {}

(* C10: every redraw shows, for each row it draws, the node's current      *)
(* nodeStatus entry (or the idle row), and the current lastUser and        *)
(* todaysCalls; the terminal then shows exactly these.                     *)
C10_RedrawShowsCurrentState ==
    drawn.emitted
    => /\ \A r \in DOMAIN drawn.rows :
             /\ drawn.rows[r] = StatusOrIdle(nodeStatus, Itoa(r))
             /\ screen.rows[r] = StatusOrIdle(nodeStatus, Itoa(r))
       /\ drawn.lastUser = lastUser
       /\ drawn.calls = todaysCalls
       /\ screen.lastUser = lastUser
       /\ screen.calls = todaysCalls

C10_Witness ==
    /\ drawn.emitted
    /\ pos >= 2
    /\ IsLogin(pos - 1, "1", "bob")
    /\ IsEvent(pos, "Disconnect", "1")
    /\ drawn.rows = (1 :> IdleStatus)
    /\ screen.lastUser = "bob"
    /\ screen.calls = 1

---------------------------------------------------------------------------
(* Helpers of the claims on the call count, the startup scan and the       *)
(* classification.                                                         *)

(* the Login lines of file dated day whose user is not the excluded one *)
QualifyingLogins(file, day) ==
    {i \in 1..Len(file) :
        /\ Classify(file[i]).type = "Login"
        /\ file[i].date = day
        /\ Classify(file[i]).m[1] # excludeUser}

OnDay(file, day) == SelectSeq(file, LAMBDA l : l.date = day)

NotOnDay(file, day) == SelectSeq(file, LAMBDA l : l.date # day)

(* The incrementally maintained daily count of the design: seeded by one   *)
(* scan of the first k lines on day day0, then one step per further line:  *)
(* when the date observed on the line differs from the day of the count,   *)
(* the count is reset and re-seeded for that date; a qualifying Login      *)
(* adds one.                                                               *)
RECURSIVE IncrementalFrom(_, _, _, _)
IncrementalFrom(file, i, count, curDay) ==
    IF i > Len(file) THEN [count |-> count, day |-> curDay]
    ELSE LET observed == file[i].date
             seeded == IF observed # curDay
                       THEN countTodaysCalls(SubSeq(file, 1, i - 1), observed)
                       ELSE count
             ev == Classify(file[i])
             step == IF ev.type = "Login" /\ ev.m[1] # excludeUser
                     THEN 1 ELSE 0
         IN IncrementalFrom(file, i + 1, seeded + step, observed)

IncrementalCount(file, k, day0) ==
    IncrementalFrom(file, k + 1, countTodaysCalls(SubSeq(file, 1, k), day0),
                    day0)

(* the days on which a count seeded after k lines can have been started *)
SeedDays(file, k) ==
    {d \in 1..MaxDay :
        /\ k >= 1 => file[k].date <= d
        /\ k < Len(file) => d <= file[k + 1].date}

(* the streaming rules applied to lines from empty maps *)
RECURSIVE Replay(_, _, _)
Replay(lines, i, st) ==
    IF i > Len(lines) THEN st
    ELSE Replay(lines, i + 1,
                ApplyLine(lines[i],
                          State(st.nodeStatus, st.activeUsers, st.lastUser,
                                st.todaysCalls, EmptyMap),
                          lines, 1))

StreamLastUser(lines) ==
    Replay(lines, 1, State(EmptyMap, EmptyMap, "None", 0, EmptyMap)).lastUser

LastLines(file, n) == SubSeq(file, Max(0, Len(file) - n) + 1, Len(file))

PatternOf(type, line) ==
    CASE type = "Connect" -> connectionPattern(line)
      [] type = "Login" -> loginPattern(line)
      [] type = "NewUserSignup" -> newUserPattern(line)
      [] type = "MenuChange" -> menuPattern(line)
      [] type = "GenericActivity" -> logPattern(line)
      [] type = "Disconnect" -> disconnectPattern(line)
      [] OTHER -> <<>>

EventTypes ==
    {"Connect", "Login", "NewUserSignup", "MenuChange", "GenericActivity",
     "Disconnect"}

(* the first rule of order that matches line, "None" when none does *)
FirstMatch(order, line) ==
    LET hits == {k \in 1..Len(order) : Len(PatternOf(order[k], line)) > 0}
    IN IF hits = {} THEN "None"
       ELSE order[CHOOSE k \in hits : \A j \in hits : k <= j]

CodeOrder ==
    <<"Connect", "Login", "NewUserSignup", "MenuChange", "GenericActivity",
      "Disconnect">>

(* the maps show the effect of the branch of type on line *)
AppliedAs(type, line) ==
    LET m == PatternOf(type, line)
        n == EventNode([type |-> type, m |-> m])
    IN CASE type = "Connect" ->
              n \in DOMAIN nodeStatus /\ nodeStatus[n].User = "Unknown User"
         [] type = "Login" ->
              /\ n \in DOMAIN nodeStatus
              /\ nodeStatus[n] = NodeStatus(m[1], <<"logging in...">>)
              /\ n \in DOMAIN activeUsers
              /\ activeUsers[n] = m[1]
         [] type = "NewUserSignup" ->
              /\ n \in DOMAIN nodeStatus
              /\ nodeStatus[n] = NodeStatus("New User", <<"Signing up...">>)
         [] type = "MenuChange" ->
              /\ n \in DOMAIN nodeStatus
              /\ nodeStatus[n].User = m[1]
              /\ Len(nodeStatus[n].Location) = 3
         [] type = "GenericActivity" ->
              /\ n \in DOMAIN nodeStatus
              /\ nodeStatus[n].User = m[1]
              /\ Len(nodeStatus[n].Location) = 2
         [] type = "Disconnect" -> n \notin DOMAIN nodeStatus
         [] OTHER -> TRUE

MatchesNothing(line) == \A type \in EventTypes : PatternOf(type, line) = <<>>

---------------------------------------------------------------------------
(* C11: an event for a node beyond "max nodes" is recorded, and no row for *)
(* a node number outside 1..maxNodes is ever drawn, neither by DrawTable   *)
(* nor by the redraw of a tick.                                            *)
C11_NoRowBeyondMaxNodes ==
    /\ DOMAIN drawn.rows \subseteq 1..maxNodes
    /\ DOMAIN screen.rows \subseteq 1..maxNodes

(* C12: countTodaysCalls gives the number of Login lines dated on the      *)
(* current day whose user is not the excluded one, repeated logins of one  *)
(* user counted each time.                                                 *)
C12_CountsEveryQualifyingLogin ==
    countTodaysCalls(logFile, today)
        = Cardinality(QualifyingLogins(logFile, today))

C12_Witness ==
    /\ Len(logFile) = 3
    /\ logFile[1] = Stamp(LoginLine("bob", "1"), today)
    /\ logFile[2] = Stamp(LoginLine(excludeUser, OutNode), today)
    /\ logFile[3] = Stamp(LoginLine("bob", "1"), today)
    /\ countTodaysCalls(logFile, today) = 2

(* C13: a count never includes logins of two days: the count for a day is  *)
(* the count of the lines dated on that day alone, the lines of the other  *)
(* days count nothing, and the value in todaysCalls is covered by the      *)
(* Login lines dated on the day it was computed on.                        *)
C13_CountOfOneDayOnly ==
    /\ \A d \in 1..MaxDay :
          /\ countTodaysCalls(logFile, d) = countTodaysCalls(OnDay(logFile, d), d)
          /\ countTodaysCalls(NotOnDay(logFile, d), d) = 0
    /\ todaysCalls <= Cardinality(QualifyingLogins(logFile, countedDay))

C13_Witness ==
    /\ today = 2
    /\ countedDay = 2
    /\ QualifyingLogins(logFile, 1) # {}
    /\ Cardinality(QualifyingLogins(logFile, 2)) = 1
    /\ todaysCalls = 1

(* C14: the call count of every redraw is the number of qualifying Login   *)
(* events dated on the day current at the redraw.                          *)
C14_RedrawnCountIsTodays ==
    [][(pos' = pos + 1 /\ drawn'.emitted)
       => drawn'.calls
            = Cardinality(QualifyingLogins(SubSeq(logFile, 1, pos + 1), today))
      ]_vars

(* C15: while the calendar day does not change the value of todaysCalls    *)
(* never decreases, and the handling of the first line after a day         *)
(* boundary leaves it reset to the count of the new day.                   *)
C15_MonotonicWithinDay ==
    [][/\ today' = today => todaysCalls' >= todaysCalls
       /\ (pos' = pos + 1 /\ countedDay # today)
            => todaysCalls'
                 = Cardinality(QualifyingLogins(SubSeq(logFile, 1, pos + 1),
                                                today))
      ]_vars

(* the incremental result r is the rescan of file for the day r ends on *)
AgreesWithRescan(r, file) == r.count = countTodaysCalls(file, r.day)

(* C16: for every log, wherever the incremental count is seeded, it ends   *)
(* with the value a full rescan gives for the day it has last observed.    *)
C16_IncrementalEqualsRescan ==
    \A k \in 0..Len(logFile) :
        \A d \in SeedDays(logFile, k) :
            AgreesWithRescan(IncrementalCount(logFile, k, d), logFile)

C16_Witness ==
    /\ Len(logFile) >= 3
    /\ QualifyingLogins(logFile, 1) # {}
    /\ QualifyingLogins(logFile, 2) # {}
    /\ \E i \in 1..Len(logFile) :
          Classify(logFile[i]).type = "Login"
          /\ Classify(logFile[i]).m[1] = excludeUser
    /\ IncrementalCount(logFile, 0, 1) = [count |-> 1, day |-> 2]

(* C17: the startup scan gives the lastUser that the streaming rules give  *)
(* on the same lines from empty maps.                                      *)
C17_ScanEqualsStreaming ==
    findLastLoggedOffUser(logFile, maxLogLines)
        = StreamLastUser(LastLines(logFile, maxLogLines))

(* C18: the result of the startup scan is a function of the last numLines  *)
(* lines: it is the result on these lines alone, and an older line put in  *)
(* front of the window does not change it.                                 *)
C18_OnlyWindowMatters ==
    /\ \A w \in (1..MaxLog) \cup {maxLogLines} :
          findLastLoggedOffUser(logFile, w)
            = findLastLoggedOffUser(LastLines(logFile, w), w)
    /\ Len(logFile) >= 1
         => \A t \in lineSet :
               findLastLoggedOffUser(<<Stamp(t, 1)>> \o logFile, Len(logFile))
                 = findLastLoggedOffUser(logFile, Len(logFile))

C18_Witness ==
    /\ Len(logFile) = 2
    /\ IsLogin(1, "1", "bob")
    /\ IsEvent(2, "Disconnect", "1")
    /\ findLastLoggedOffUser(logFile, 1) = "None"
    /\ findLastLoggedOffUser(logFile, 2) = "bob"

(* C19 as stated: the rules are tried in the order Connect, NewUserSignup, *)
(* Login, MenuChange, GenericActivity, Disconnect.                         *)
C19_SpecPriorityOrder ==
    \A i \in 1..Len(logFile) :
        Ev(i).type
          = FirstMatch(<<"Connect", "NewUserSignup", "Login", "MenuChange",
                         "GenericActivity", "Disconnect">>, logFile[i])

(* C19 amended: the rules are tried in the order Connect, Login,           *)
(* NewUserSignup, MenuChange, GenericActivity, Disconnect; a line is       *)
(* classified and applied as the first rule that matches, only.            *)
C19_CodePriorityOrder ==
    /\ \A i \in 1..Len(logFile) : Ev(i).type = FirstMatch(CodeOrder, logFile[i])
    /\ pos >= 1 => AppliedAs(FirstMatch(CodeOrder, logFile[pos]), logFile[pos])

C19_Witness ==
    /\ pos >= 1
    /\ logFile[pos].shape = "signup+login"
    /\ Len(newUserPattern(logFile[pos])) > 0
    /\ Len(loginPattern(logFile[pos])) > 0
    /\ Ev(pos).type = "Login"
    /\ activeUsers = ("1" :> SignupNamedUser("1"))

(* C20: a line that matches no pattern gives no event, and handling it     *)
(* leaves nodeStatus, activeUsers, lastUser and todaysCalls as they are.   *)
C20_UnmatchedLineChangesNothing ==
    [][(/\ pos < Len(logFile)
        /\ pos' = pos + 1
        /\ MatchesNothing(logFile[pos + 1]))
       => /\ Classify(logFile[pos + 1]).type = "None"
          /\ UNCHANGED <<nodeStatus, activeUsers, lastUser, todaysCalls>>
      ]_vars

C20_Witness ==
    /\ pos >= 2
    /\ IsLogin(pos - 1, "1", "bob")
    /\ logFile[pos].shape = "other"
    /\ MatchesNothing(logFile[pos])
    /\ nodeStatus = ("1" :> NodeStatus("bob", <<"logging in...">>))
    /\ activeUsers = ("1" :> "bob")

---------------------------------------------------------------------------
(* Helpers of the claims on the status each event leaves. *)

(* the display text of the object of a menu or activity line of the model, *)
(* as the menu and the activity branch format it                           *)
MenuName(path) ==
    CASE path = "menus/main.toml" -> "Main"
      [] path = "menus/sub/files.toml" -> "Files"
      [] OTHER -> path

ActivityLabel(arg) ==
    CASE arg = "menus/main.toml" -> "Main"
      [] arg = "tradewars" -> "Tradewars"
      [] arg = "general" -> "General"
      [] OTHER -> arg

(* the status the transition of the event of line gives its node *)
StatusGiven(line) ==
    LET type == Classify(line).type
    IN CASE type = "Connect" -> NodeStatus("Unknown User", <<line.arg>>)
         [] type = "Login" -> NodeStatus(line.user, <<"logging in...">>)
         [] type = "NewUserSignup" -> NodeStatus("New User", <<"Signing up...">>)
         [] type = "MenuChange" ->
              NodeStatus(line.user, <<"At ", MenuName(line.arg), " Menu">>)
         [] type = "GenericActivity" ->
              NodeStatus(line.user, <<"At ", ActivityLabel(line.arg)>>)
         [] OTHER -> IdleStatus

(* the location the activity branch stores for the raw text arg *)
ActivityLocation(arg) ==
    ActivityBranch(<<"bob", "running script", arg, "1">>,
                   State(EmptyMap, EmptyMap, "None", 0, EmptyMap)
                  ).nodeStatus["1"].Location

---------------------------------------------------------------------------
(* C21: a line of the activity shape is a GenericActivity exactly when its *)
(* verb phrase is one of running door, running script, listing messages,   *)
(* posting a message, listing fileareas, listing file conferences, and     *)
(* each of these updates the status of the node.                           *)
C21_SixVerbPhrasesClassify ==
    (pos >= 1 /\ logFile[pos].shape = "act")
    => LET line == logFile[pos]
           listed == line.verb \in
                       {"running door", "running script", "listing messages",
                        "posting a message", "listing fileareas",
                        "listing file conferences"}
       IN /\ listed <=> Ev(pos).type = "GenericActivity"
          /\ listed => /\ line.node \in DOMAIN nodeStatus
                       /\ nodeStatus[line.node].User = line.user

(* the variables after the first k lines have been applied whole, one     *)
(* after the other, from empty maps                                        *)
WholeOf(file, k) ==
    Replay(SubSeq(file, 1, k), 1,
           State(EmptyMap, EmptyMap, "None", 0, EmptyMap))

Whole(k) == WholeOf(logFile, k)

(* st holds the maps of w, and its lastUser once a Disconnect has set it *)
IsWhole(ns, au, lu, w) ==
    /\ ns = w.nodeStatus
    /\ au = w.activeUsers
    /\ w.lastUser # "None" => lu = w.lastUser

(* the step in which the ticker case of the inner select runs *)
Emission == tickPending /\ ~tickPending'

(* C22: the lines are taken one at a time and in the order of the log,     *)
(* each only after the handler of the line before has finished; the maps   *)
(* and lastUser change in the statements of a branch only, and when the    *)
(* branch of a line has finished the maps (and lastUser, once a            *)
(* Disconnect has set it) are those of the lines taken so far applied      *)
(* once each, whole, in that order.                                        *)
C22_AppliedInLogOrder ==
    [][/\ pos' # pos
            => /\ pos' = pos + 1
               /\ pc = "receive"
               /\ pc' \in {"apply1", "select"}
       /\ <<nodeStatus, activeUsers, lastUser>>'
              # <<nodeStatus, activeUsers, lastUser>>
            => pc \in {"apply1", "apply2", "apply3", "initialScreen"}
       /\ (pc # "select" /\ pc' = "select")
            => IsWhole(nodeStatus', activeUsers', lastUser',
                       WholeOf(logFile', pos'))
      ]_vars

C22_Witness ==
    /\ pc = "receive"
    /\ pos = 4
    /\ Ev(1).type = "Connect"
    /\ Ev(2).type = "Login"
    /\ Ev(3).type = "MenuChange"
    /\ Ev(4).type = "Disconnect"
    /\ nodeStatus = EmptyMap
    /\ activeUsers = EmptyMap
    /\ lastUser = "bob"

(* C23: the ticker case runs only when no event is partly applied: at      *)
(* every emission the maps are those of the lines taken so far applied     *)
(* whole, and the rows, the last user and the call count written are       *)
(* those of that state.                                                    *)
C23_EmissionSeesWholeEvents ==
    [][Emission
       => /\ nodeStatus = Whole(pos).nodeStatus
          /\ activeUsers = Whole(pos).activeUsers
          /\ \A r \in DOMAIN drawn'.rows :
                drawn'.rows[r] = StatusOrIdle(Whole(pos).nodeStatus, Itoa(r))
          /\ Whole(pos).lastUser # "None"
               => drawn'.lastUser = Whole(pos).lastUser
          /\ (pos >= 1 /\ Recounts(logFile[pos]))
               => drawn'.calls
                    >= Cardinality(QualifyingLogins(SubSeq(logFile, 1, pos),
                                                    today))
      ]_vars

C23_Witness ==
    /\ pc = "receive"
    /\ pos >= 2
    /\ IsLogin(pos - 1, "1", "bob")
    /\ IsEvent(pos, "Disconnect", "1")
    /\ drawn = [emitted |-> TRUE, rows |-> (1 :> IdleStatus),
                lastUser |-> "bob", calls |-> 1]
    /\ "1" \notin DOMAIN nodeStatus

(* C24: no step of a handler, from the taking of a line to the end of the  *)
(* inner select, reads the log file or writes to the terminal.             *)
C24_NoBlockingIOInHandler ==
    [][/\ ~(pc = "recount" /\ pc' = "select")
       /\ ~(pc \in Handler /\ Emission)
      ]_vars

C26_SourceFailureKeepsRunning ==
    pc # "panicked"

(* C27: after a Connect, Login, NewUserSignup, MenuChange or               *)
(* GenericActivity for node n, nodeStatus[n] is the status of the          *)
(* transition table, whatever entry n had before.                          *)
C27_StatusAfterEvent ==
    (pos >= 1 /\ Ev(pos).type \notin {"None", "Disconnect"})
    => /\ EventNode(Ev(pos)) \in DOMAIN nodeStatus
       /\ nodeStatus[EventNode(Ev(pos))] = StatusGiven(logFile[pos])

C27_Witness ==
    /\ pos >= 2
    /\ IsLogin(pos - 1, "1", "bob")
    /\ IsEvent(pos, "Connect", "1")
    /\ nodeStatus = ("1" :> NodeStatus("Unknown User", <<"1.2.3.4">>))

(* C28: activeUsers changes only when a Login or a Disconnect is handled;  *)
(* Login(n, u) sets the entry of n to u, Disconnect(n) removes it, and     *)
(* Connect, NewUserSignup, MenuChange and GenericActivity leave the whole  *)
(* map as it is.                                                           *)
C28_ActiveUsersFrame ==
    [][/\ activeUsers' # activeUsers
            => (Handles("Login") \/ Handles("Disconnect"))
       /\ Handles("Login")
            => activeUsers' = MapPut(activeUsers, Ev(pos + 1).m[2],
                                     Ev(pos + 1).m[1])
       /\ Handles("Disconnect")
            => activeUsers' = MapDelete(activeUsers, Ev(pos + 1).m[1])
       /\ (Handles("Connect") \/ Handles("NewUserSignup")
           \/ Handles("MenuChange") \/ Handles("GenericActivity"))
            => activeUsers' = activeUsers
      ]_vars

C28_Witness ==
    /\ pos >= 2
    /\ IsLogin(pos - 1, "1", "bob")
    /\ IsEvent(pos, "NewUserSignup", "1")
    /\ activeUsers = ("1" :> "bob")
    /\ nodeStatus["1"].User = "New User"

(* C29 as stated: the location stored for a MenuChange is the value the    *)
(* formatting of the activity branch gives for the same menu path.         *)
C29_MenuLocationIsFormatted ==
    (pos >= 1 /\ Ev(pos).type = "MenuChange")
    => nodeStatus[EventNode(Ev(pos))].Location
         = ActivityLocation(logFile[pos].arg)

(* C29 amended: the location stored for a MenuChange is "At ", the title-  *)
(* cased base name of the path without ".toml", and " Menu"; for a path    *)
(* directly under menus/ this is the value of the activity branch for the  *)
(* same text followed by " Menu"; the activity branch stores "At " and the *)
(* title-cased text without "menus/" and ".toml".                          *)
C29_MenuLocationHasMenuSuffix ==
    /\ (pos >= 1 /\ Ev(pos).type = "MenuChange")
       => /\ nodeStatus[EventNode(Ev(pos))].Location
               = <<"At ", MenuName(logFile[pos].arg), " Menu">>
          /\ logFile[pos].arg = "menus/main.toml"
               => nodeStatus[EventNode(Ev(pos))].Location
                    = ActivityLocation(logFile[pos].arg) \o <<" Menu">>
    /\ (pos >= 1 /\ Ev(pos).type = "GenericActivity")
       => nodeStatus[EventNode(Ev(pos))].Location
            = <<"At ", ActivityLabel(logFile[pos].arg)>>

C29_Witness ==
    /\ pos >= 2
    /\ IsEvent(pos - 1, "GenericActivity", "1")
    /\ logFile[pos - 1].arg = "menus/main.toml"
    /\ IsEvent(pos, "MenuChange", "2")
    /\ nodeStatus["1"].Location = <<"At ", "Main">>
    /\ nodeStatus["2"].Location = <<"At ", "Files", " Menu">>

(* C30: DrawTable gives one row for each of the nodes 1..maxNodes, row i   *)
(* for node i: the entry of the node in nodeStatus, the idle row when it   *)
(* has none; an entry of a node outside 1..maxNodes gives no row.          *)
C30_FullDrawRows ==
    LET rows == DrawTable(nodeStatus, maxNodes)
    IN /\ DOMAIN rows = 1..maxNodes
       /\ \A k \in DOMAIN nodeStatus :
             Atoi(k) \in 1..maxNodes => rows[Atoi(k)] = nodeStatus[k]
       /\ \A i \in 1..maxNodes :
             (\A k \in DOMAIN nodeStatus : Atoi(k) # i) => rows[i] = IdleStatus

C30_Witness ==
    /\ DOMAIN nodeStatus = {"1", OutNode}
    /\ DrawTable(nodeStatus, maxNodes)
         = <<NodeStatus("bob", <<"logging in...">>), IdleStatus>>

(* C31: when HandleKeyPress has read q, Q or ESC main returns and the      *)
(* pipeline has ended: the step of the quit itself applies no event and    *)
(* draws nothing, whatever line or tick the goroutine still had to handle, *)
(* and no step follows it.                                                 *)
C31_QuitEndsPipeline ==
    [][/\ pc # "quit"
       /\ pc' = "quit"
            => /\ Running
               /\ UNCHANGED <<logFile, pos, nodeStatus, activeUsers, lastUser,
                              todaysCalls, updatedNodes, tickPending, drawn,
                              screen>>
      ]_vars

C31_Witness ==
    /\ pc = "quit"
    /\ pos = 2
    /\ IsLogin(1, "1", "bob")
    /\ IsEvent(2, "Disconnect", "1")
    /\ lastUser = "bob"
    /\ "1" \in DOMAIN activeUsers
    /\ tickPending
    /\ Len(logFile) > pos

(* C32: the event of a line depends on the line alone: when the line the   *)
(* goroutine handles is the same as the line it handled just before, the   *)
(* handler takes the same branch with the same captures (updatedNodes, made*)
(* anew for each line, holds the same row or is empty again), whatever the *)
(* first handling, the ticks and a change of day have done to the state.   *)
C32_SameLineSameEvent ==
    [][(/\ pos >= 1
        /\ pos < Len(logFile)
        /\ pos' = pos + 1
        /\ logFile[pos + 1] = logFile[pos])
       => updatedNodes' = updatedNodes]_vars

C32_Witness ==
    /\ pos >= 2
    /\ logFile[pos] = logFile[pos - 1]
    /\ IsLogin(pos, "1", "bob")
    /\ logFile[pos].date = 1
    /\ today = 2
    /\ updatedNodes = (1 :> NodeStatus("bob", <<"logging in...">>))

(* C33: at every statement of the program every node with an activeUsers   *)
(* entry has a nodeStatus entry: the login branch writes nodeStatus before *)
(* activeUsers and the disconnect branch deletes from activeUsers before   *)
(* nodeStatus.                                                             *)
C33_IdentityHasStatus == DOMAIN activeUsers \subseteq DOMAIN nodeStatus

C33_Witness ==
    /\ pc = "recount"
    /\ pos >= 2
    /\ IsEvent(pos - 1, "Disconnect", "1")
    /\ IsLogin(pos, "1", "bob")
    /\ activeUsers = ("1" :> "bob")
    /\ DOMAIN nodeStatus = {"1"}

(* the entry of key k in the map m, as a sequence: empty when k has none *)
Entry(m, k) == IF k \in DOMAIN m THEN <<m[k]>> ELSE <<>>

(* C34: the handling of a line whose event is for node n leaves the        *)
(* nodeStatus entry and the activeUsers entry of every other node as they  *)
(* were (present with the same value, or absent); a line of no event       *)
(* leaves every entry.                                                     *)
C34_OtherNodesUntouched ==
    [][(pos < Len(logFile) /\ pos' = pos + 1)
       => \A n \in (DOMAIN nodeStatus \cup DOMAIN nodeStatus'
                     \cup DOMAIN activeUsers \cup DOMAIN activeUsers')
                    \ {EventNode(Ev(pos + 1))} :
             /\ Entry(nodeStatus', n) = Entry(nodeStatus, n)
             /\ Entry(activeUsers', n) = Entry(activeUsers, n)]_vars

C34_Witness ==
    /\ pos >= 3
    /\ IsLogin(pos - 2, "1", "bob")
    /\ IsLogin(pos - 1, OutNode, excludeUser)
    /\ IsEvent(pos, "Disconnect", "1")
    /\ activeUsers = (OutNode :> excludeUser)
    /\ nodeStatus = (OutNode :> NodeStatus(excludeUser, <<"logging in...">>))

C36_DisconnectIdempotent ==
    [][/\ (/\ Handles("Disconnect")
           /\ pos >= 1
           /\ IsEvent(pos, "Disconnect", Ev(pos + 1).m[1]))
          => UNCHANGED <<nodeStatus, activeUsers, lastUser>>
       /\ (/\ Handles("Disconnect")
           /\ LoginsSinceOff(Ev(pos + 1).m[1], pos) = {})
          => lastUser' = lastUser
      ]_vars

C36_Witness ==
    /\ pos >= 3
    /\ IsLogin(pos - 2, "1", "bob")
    /\ IsEvent(pos - 1, "Disconnect", "1")
    /\ IsEvent(pos, "Disconnect", "1")
    /\ logFile[pos].date = 2
    /\ lastUser = "bob"
    /\ nodeStatus = EmptyMap
    /\ activeUsers = EmptyMap

(* the user of the latest Login(node) among the first k lines since the    *)
(* last Disconnect(node); LoginsSinceOff(node, k) is not empty             *)
LatestLoginUser(node, k) ==
    LET ins == LoginsSinceOff(node, k)
    IN Ev(CHOOSE i \in ins : \A j \in ins : j <= i).m[1]

(* C37 as stated: a Disconnect(n) handled after a Login(n) since the       *)
(* previous Disconnect(n) sets lastUser to the user of the most recent     *)
(* such Login, whatever was shown for n since.                             *)
C37_LastUserIsLoginUser ==
    [][(/\ Handles("Disconnect")
        /\ LoginsSinceOff(Ev(pos + 1).m[1], pos) # {})
       => lastUser' = LatestLoginUser(Ev(pos + 1).m[1], pos)]_vars

(* C37 amended: such a Disconnect(n) sets lastUser to the user u of the    *)
(* most recent Login(n) since the previous Disconnect(n) when u is not     *)
(* "New User", whatever user the menu, activity, connect or signup lines   *)
(* handled since have put on display for n; when u is "New User" it        *)
(* leaves lastUser as it is.                                               *)
C37_LastUserIsRealLoginUser ==
    [][(/\ Handles("Disconnect")
        /\ LoginsSinceOff(Ev(pos + 1).m[1], pos) # {})
       => LET u == LatestLoginUser(Ev(pos + 1).m[1], pos)
          IN lastUser' = IF u # "New User" THEN u ELSE lastUser]_vars

C37_Witness ==
    /\ pos >= 3
    /\ IsLogin(pos - 2, "1", "bob")
    /\ IsEvent(pos - 1, "MenuChange", "1")
    /\ logFile[pos - 1].user = excludeUser
    /\ IsEvent(pos, "Disconnect", "1")
    /\ lastUser = "bob"

(* C38: todaysCalls is never more than the number of today's logins of    *)
(* users other than the excluded one among the lines the goroutine has     *)
(* received, or among the lines the log held when main counted it for the  *)
(* initial screen (at most MaxBacklog lines), lines written since and not  *)
(* yet received being left out.                                            *)
C38_CountNotAheadOfIngestion ==
    todaysCalls
        <= countTodaysCalls(SubSeq(logFile, 1,
                                   IF Len(logFile) <= Max(pos, MaxBacklog)
                                   THEN Len(logFile)
                                   ELSE Max(pos, MaxBacklog)),
                            today)

---------------------------------------------------------------------------
TypeOK ==
    /\ pos \in 0..Len(logFile)
    /\ Len(logFile) <= MaxLog
    /\ tickPending \in BOOLEAN

=============================================================================
